---- MODULE Spec2Model ----
(***************************************************************************)
(* goog.storage.mechanism.HTML5WebStorage                                  *)
(* (closure/goog/storage/mechanism/html5webstorage.js)                     *)
(*                                                                         *)
(* The mechanism wraps one Web Storage object (this.storage_).  The        *)
(* backing store is an ordered list of key/value entries: the order is the *)
(* one storage.key(i) enumerates.  JavaScript values are tagged pairs      *)
(* <<type, text>>, so that typeof and the comparison with null are         *)
(* computed the way the code computes them.                                *)
(***************************************************************************)
EXTENDS Integers, Sequences, FiniteSets, TLC

\* ------------------------------------------------------------- bounds
\* Number of entries the Storage object has room for: a write that would add
\* one more is rejected (the quota).
MaxEntries == 2

\* ------------------------------------------------------- JavaScript values
Str(s) == <<"string", s>>
Null == <<"null", "null">>
Undefined == <<"undefined", "undefined">>
Num7 == <<"number", "7">>
Obj == <<"object", "{}">>

\* typeof: null is an object.
Typeof(v) == IF v = Null THEN "object" ELSE v[1]

STORAGE_AVAILABLE_KEY_ == "__sak"

\* goog.storage.mechanism.ErrorCode, each code by its name.
STORAGE_DISABLED == "STORAGE_DISABLED"
QUOTA_EXCEEDED == "QUOTA_EXCEEDED"
INVALID_VALUE == "INVALID_VALUE"

Keys == {"a", "b", STORAGE_AVAILABLE_KEY_}
StrVals == {"1", "x"}
StoredVals == {Str(s) : s \in StrVals} \cup {Num7, Obj}

VARIABLES
  hasStorage,   \* this.storage_ is a Storage object (FALSE: null)
  store,        \* the entries of the Storage object, in key(i) order
  it,           \* the iterator made by the last __iterator__ call
  last,         \* the last call: its arguments, its outcome, the state before it
  win,          \* a call of goog.window.open or popup: what it is given, what it does
  mech          \* which mechanism instance made the last call, and the call before it

vars == <<hasStorage, store, it, last, win, mech>>

\* ------------------------------------------------- the Storage object
IndexOf(s, k) ==
  IF \E j \in 1..Len(s) : s[j].k = k
  THEN CHOOSE j \in 1..Len(s) : s[j].k = k
  ELSE 0

length(s) == Len(s)

getItem(s, k) == IF IndexOf(s, k) = 0 THEN Null ELSE s[IndexOf(s, k)].v

\* A new key takes the position pos the user agent gives it; an existing
\* key keeps its position and gets the new value.
setItem(s, k, v, pos) ==
  IF IndexOf(s, k) # 0
  THEN [s EXCEPT ![IndexOf(s, k)].v = v]
  ELSE SubSeq(s, 1, pos - 1) \o <<[k |-> k, v |-> v]>> \o SubSeq(s, pos, Len(s))

removeItem(s, k) ==
  IF IndexOf(s, k) = 0
  THEN s
  ELSE SubSeq(s, 1, IndexOf(s, k) - 1) \o SubSeq(s, IndexOf(s, k) + 1, Len(s))

\* storage.key(n), n counted from 0: null outside [0..length).
key(s, n) == IF n >= 0 /\ n < Len(s) THEN Str(s[n + 1].k) ELSE Null

\* ------------------------------------------------------- call outcomes
Raise(e) == [err |-> e, ret |-> Undefined]
Return(v) == [err |-> "none", ret |-> v]

\* --------------------------------------------------------- the mechanism
\* Variant: removeItem is called after the try block.
isAvailable_removeOutsideTry(s, setThrows, rmThrows, pos) ==
  IF ~hasStorage THEN [err |-> "none", ret |-> FALSE, store |-> s]
  ELSE IF setThrows THEN [err |-> "none", ret |-> FALSE, store |-> s]
  ELSE LET s1 == setItem(s, STORAGE_AVAILABLE_KEY_, Str("1"), pos) IN
       IF rmThrows THEN [err |-> "Error", ret |-> FALSE, store |-> s1]
       ELSE [err |-> "none", ret |-> TRUE,
             store |-> removeItem(s1, STORAGE_AVAILABLE_KEY_)]

\* Variant: the sentinel is written and never removed.
isAvailable_noRemove(s, setThrows, rmThrows, pos) ==
  IF ~hasStorage THEN [err |-> "none", ret |-> FALSE, store |-> s]
  ELSE IF setThrows THEN [err |-> "none", ret |-> FALSE, store |-> s]
  ELSE [err |-> "none", ret |-> TRUE,
        store |-> setItem(s, STORAGE_AVAILABLE_KEY_, Str("1"), pos)]

\* setThrows, rmThrows: the Storage object throws from setItem, from
\* removeItem; both calls are inside the try block.
isAvailable(s, setThrows, rmThrows, pos) ==
  IF ~hasStorage THEN [err |-> "none", ret |-> FALSE, store |-> s]
  ELSE IF setThrows THEN [err |-> "none", ret |-> FALSE, store |-> s]
  ELSE LET s1 == setItem(s, STORAGE_AVAILABLE_KEY_, Str("1"), pos) IN
       IF rmThrows THEN [err |-> "none", ret |-> FALSE, store |-> s1]
       ELSE [err |-> "none", ret |-> TRUE,
             store |-> removeItem(s1, STORAGE_AVAILABLE_KEY_)]

\* The outcome of set: the error thrown, the store it leaves, and the number
\* of setItem calls it made.
SetResult(err, s, writes) == [err |-> err, store |-> s, writes |-> writes]

\* Variant: a key that is already stored keeps its value.
set_keepsOld(s, k, v, rejects, pos) ==
  IF ~hasStorage THEN SetResult("TypeError", s, 0)
  ELSE IF ~rejects
  THEN SetResult("none", IF IndexOf(s, k) # 0 THEN s ELSE setItem(s, k, v, pos), 1)
  ELSE IF length(s) = 0 THEN SetResult(STORAGE_DISABLED, s, 1)
  ELSE SetResult(QUOTA_EXCEEDED, s, 1)

\* Variant: the two error codes are exchanged.
set_codesSwapped(s, k, v, rejects, pos) ==
  IF ~hasStorage THEN SetResult("TypeError", s, 0)
  ELSE IF ~rejects THEN SetResult("none", setItem(s, k, v, pos), 1)
  ELSE IF length(s) = 0 THEN SetResult(QUOTA_EXCEEDED, s, 1)
  ELSE SetResult(STORAGE_DISABLED, s, 1)

\* Variant: a rejected write is tried again after the store is emptied.
set_retriesAfterClear(s, k, v, rejects, pos) ==
  IF ~hasStorage THEN SetResult("TypeError", s, 0)
  ELSE IF ~rejects THEN SetResult("none", setItem(s, k, v, pos), 1)
  ELSE IF length(s) = 0 THEN SetResult(STORAGE_DISABLED, s, 1)
  ELSE SetResult("none", setItem(<<>>, k, v, 1), 2)

\* rejects: the Storage object throws from setItem and stores nothing.
set(s, k, v, rejects, pos) ==
  IF ~hasStorage THEN SetResult("TypeError", s, 0)
  ELSE IF ~rejects THEN SetResult("none", setItem(s, k, v, pos), 1)
  ELSE IF length(s) = 0 THEN SetResult(STORAGE_DISABLED, s, 1)
  ELSE SetResult(QUOTA_EXCEEDED, s, 1)

\* Variant: a value that is not a string is returned as null.
get_hides(s, k) ==
  IF ~hasStorage THEN Raise("TypeError")
  ELSE LET value == getItem(s, k) IN
       IF Typeof(value) # "string" THEN Return(Null) ELSE Return(value)

\* Variant: the mechanism answers from a copy of the store it took before
\* the call that came last.
get_stale(s, k) ==
  IF ~hasStorage THEN Raise("TypeError")
  ELSE LET value == getItem(last.pre, k) IN
       IF Typeof(value) # "string" /\ value # Null
       THEN Raise(INVALID_VALUE)
       ELSE Return(value)

get(s, k) ==
  IF ~hasStorage THEN Raise("TypeError")
  ELSE LET value == getItem(s, k) IN
       IF Typeof(value) # "string" /\ value # Null
       THEN Raise(INVALID_VALUE)
       ELSE Return(value)

\* Variant: removal by position, where the position of an absent key (-1)
\* counts from the end.
remove_spliceLast(s, k) ==
  IF ~hasStorage THEN [err |-> "TypeError", store |-> s]
  ELSE IF IndexOf(s, k) = 0 /\ Len(s) > 0
  THEN [err |-> "none", store |-> SubSeq(s, 1, Len(s) - 1)]
  ELSE [err |-> "none", store |-> removeItem(s, k)]

remove(s, k) ==
  IF ~hasStorage THEN [err |-> "TypeError", store |-> s]
  ELSE [err |-> "none", store |-> removeItem(s, k)]

getCount(s) ==
  IF ~hasStorage THEN [err |-> "TypeError", n |-> 0]
  ELSE [err |-> "none", n |-> length(s)]

\* Variant: only the entry at index 0 is removed.
clear_onlyFirst(s) ==
  IF ~hasStorage THEN [err |-> "TypeError", store |-> s]
  ELSE [err |-> "none", store |-> SubSeq(s, 2, Len(s))]

clear(s) ==
  IF ~hasStorage THEN [err |-> "TypeError", store |-> s]
  ELSE [err |-> "none", store |-> <<>>]

NextResult(err, done, ret, i) == [err |-> err, done |-> done, ret |-> ret, i |-> i]

\* Variant: storage.key(++i).
next_preIncrement(s, opt_keys, i) ==
  IF ~hasStorage THEN NextResult("TypeError", FALSE, Undefined, i)
  ELSE IF i >= length(s) THEN NextResult("none", TRUE, Undefined, i)
  ELSE LET k == key(s, i + 1) IN
       IF Typeof(k) # "string" THEN NextResult("AssertionError", FALSE, Undefined, i + 1)
       ELSE IF opt_keys THEN NextResult("none", FALSE, k, i + 1)
       ELSE LET value == getItem(s, k[2]) IN
            IF Typeof(value) # "string"
            THEN NextResult(INVALID_VALUE, FALSE, Undefined, i + 1)
            ELSE NextResult("none", FALSE, value, i + 1)

\* Variant: the value is yielded without the typeof test.
next_noCheck(s, opt_keys, i) ==
  IF ~hasStorage THEN NextResult("TypeError", FALSE, Undefined, i)
  ELSE IF i >= length(s) THEN NextResult("none", TRUE, Undefined, i)
  ELSE LET k == key(s, i) IN
       IF Typeof(k) # "string" THEN NextResult("AssertionError", FALSE, Undefined, i + 1)
       ELSE IF opt_keys THEN NextResult("none", FALSE, k, i + 1)
       ELSE NextResult("none", FALSE, getItem(s, k[2]), i + 1)

\* Variant: the index is advanced only after the typeof test has passed.
next_stuckOnInvalid(s, opt_keys, i) ==
  IF ~hasStorage THEN NextResult("TypeError", FALSE, Undefined, i)
  ELSE IF i >= length(s) THEN NextResult("none", TRUE, Undefined, i)
  ELSE LET k == key(s, i) IN
       IF Typeof(k) # "string" THEN NextResult("AssertionError", FALSE, Undefined, i)
       ELSE IF opt_keys THEN NextResult("none", FALSE, k, i + 1)
       ELSE LET value == getItem(s, k[2]) IN
            IF Typeof(value) # "string"
            THEN NextResult(INVALID_VALUE, FALSE, Undefined, i)
            ELSE NextResult("none", FALSE, value, i + 1)

\* Variant: reporting done rewinds the index.
next_restarts(s, opt_keys, i) ==
  IF ~hasStorage THEN NextResult("TypeError", FALSE, Undefined, i)
  ELSE IF i >= length(s) THEN NextResult("none", TRUE, Undefined, 0)
  ELSE LET k == key(s, i) IN
       IF Typeof(k) # "string" THEN NextResult("AssertionError", FALSE, Undefined, i + 1)
       ELSE IF opt_keys THEN NextResult("none", FALSE, k, i + 1)
       ELSE LET value == getItem(s, k[2]) IN
            IF Typeof(value) # "string"
            THEN NextResult(INVALID_VALUE, FALSE, Undefined, i + 1)
            ELSE NextResult("none", FALSE, value, i + 1)

\* Variant: the length is read once, when the iterator is made.
next_cachedLength(s, opt_keys, i) ==
  IF ~hasStorage THEN NextResult("TypeError", FALSE, Undefined, i)
  ELSE IF i >= Cardinality(it.keys0) THEN NextResult("none", TRUE, Undefined, i)
  ELSE LET k == key(s, i) IN
       IF Typeof(k) # "string" THEN NextResult("AssertionError", FALSE, Undefined, i + 1)
       ELSE IF opt_keys THEN NextResult("none", FALSE, k, i + 1)
       ELSE LET value == getItem(s, k[2]) IN
            IF Typeof(value) # "string"
            THEN NextResult(INVALID_VALUE, FALSE, Undefined, i + 1)
            ELSE NextResult("none", FALSE, value, i + 1)

\* Variant: done is reported only when the index is above the length.
next_offByOne(s, opt_keys, i) ==
  IF ~hasStorage THEN NextResult("TypeError", FALSE, Undefined, i)
  ELSE IF i > length(s) THEN NextResult("none", TRUE, Undefined, i)
  ELSE LET k == key(s, i) IN
       IF Typeof(k) # "string" THEN NextResult("AssertionError", FALSE, Undefined, i + 1)
       ELSE IF opt_keys THEN NextResult("none", FALSE, k, i + 1)
       ELSE LET value == getItem(s, k[2]) IN
            IF Typeof(value) # "string"
            THEN NextResult(INVALID_VALUE, FALSE, Undefined, i + 1)
            ELSE NextResult("none", FALSE, value, i + 1)

\* newIter.next, on an iterator at index i: the outcome and the index after.
next(s, opt_keys, i) ==
  IF ~hasStorage THEN NextResult("TypeError", FALSE, Undefined, i)
  ELSE IF i >= length(s) THEN NextResult("none", TRUE, Undefined, i)
  ELSE LET k == key(s, i) IN
       IF Typeof(k) # "string" THEN NextResult("AssertionError", FALSE, Undefined, i + 1)
       ELSE IF opt_keys THEN NextResult("none", FALSE, k, i + 1)
       ELSE LET value == getItem(s, k[2]) IN
            IF Typeof(value) # "string"
            THEN NextResult(INVALID_VALUE, FALSE, Undefined, i + 1)
            ELSE NextResult("none", FALSE, value, i + 1)

\* ---------------------------------------------------------------------
\* goog.window (closure/goog/window/window.js): open and popup
\* ---------------------------------------------------------------------
\* Number of options in the opt_options object a caller passes.
MaxOpts == 2

ENFORCE_COOP == TRUE
DEFAULT_POPUP_HEIGHT == 500
DEFAULT_POPUP_WIDTH == 690
DEFAULT_POPUP_TARGET == "google_popup"

Num(n) == <<"number", ToString(n)>>
True == <<"boolean", "true">>
False == <<"boolean", "false">>

\* ToBoolean, as in `x || y`, `x ? 1 : 0` and `if (x)`.
Truthy(v) ==
  CASE v[1] = "string" -> v[2] # ""
    [] v[1] = "number" -> v[2] # "0"
    [] v[1] = "boolean" -> v[2] = "true"
    [] v[1] = "object" -> TRUE
    [] OTHER -> FALSE

\* x || y
Or(x, y) == IF Truthy(x) THEN x ELSE y

\* '' + x
ToStr(v) == v[2]

\* An options object: its properties in for-in order, one per name.
GetOpt(opts, name) ==
  IF \E j \in 1..Len(opts) : opts[j].name = name
  THEN opts[CHOOSE j \in 1..Len(opts) : opts[j].name = name].val
  ELSE Undefined

\* opts[name] = v: a property already there keeps its place, a new one goes last.
SetOpt(opts, name, v) ==
  IF \E j \in 1..Len(opts) : opts[j].name = name
  THEN [j \in 1..Len(opts) |->
          IF opts[j].name = name THEN [name |-> name, val |-> v] ELSE opts[j]]
  ELSE Append(opts, [name |-> name, val |-> v])

\* A URL is a sequence of pieces of text, so that the characters the code looks
\* for (; and ') can be found and replaced.
INNOCUOUS_URL == <<"about:invalid#zClosurez">>

\* goog.html.SafeUrl.sanitize: a javascript: URL becomes the innocuous URL.
Sanitize(url) == IF url[1] = "javascript:" THEN INNOCUOUS_URL ELSE url

\* The SafeUrl open works with (safeLinkRef).
SafeLinkRef(linkRef) ==
  IF linkRef.kind = "SafeUrl" THEN linkRef.href ELSE Sanitize(linkRef.href)

Contains(url, piece) == \E j \in 1..Len(url) : url[j] = piece

\* sanitizedLinkRef for IE and Edge: quoted when it contains a semicolon.
QuoteForIe(url) ==
  IF Contains(url, ";")
  THEN <<"'">> \o [j \in 1..Len(url) |-> IF url[j] = "'" THEN "%27" ELSE url[j]]
       \o <<"'">>
  ELSE url

\* goog.string.htmlEscape
HtmlEscape(url) ==
  [j \in 1..Len(url) |->
     CASE url[j] = "&" -> "&amp;"
       [] url[j] = "<" -> "&lt;"
       [] url[j] = ">" -> "&gt;"
       [] url[j] = "\"" -> "&quot;"
       [] url[j] = "'" -> "&#39;"
       [] OTHER -> url[j]]

META_REFERRER == "<meta name=\"referrer\" content=\"no-referrer\">"
META_REFRESH == "<meta http-equiv=\"refresh\" content=\"0; url="

\* The document written into the blank window.
SafeHtml(url) == <<META_REFERRER, META_REFRESH>> \o HtmlEscape(url) \o <<"\">">>

SizeOptions == {"width", "height", "top", "left"}
SilentOptions == {"target", "noopener", "noreferrer"}

\* Variant: every option is written by its truthiness.
Feature_allFlags(o) == <<o.name, "=", IF Truthy(o.val) THEN "1" ELSE "0">>

\* One item of the window features string: option=value.
Feature(o) ==
  <<o.name, "=",
    IF o.name \in SizeOptions THEN ToStr(o.val)
    ELSE IF Truthy(o.val) THEN "1" ELSE "0">>

\* sb.join(','): the items in for-in order.
optionString(opts) ==
  LET kept == SelectSeq(opts, LAMBDA o : o.name \notin SilentOptions) IN
  [j \in 1..Len(kept) |-> Feature(kept[j])]

browserSupportsCoop(env) == ENFORCE_COOP /\ env.crossOriginIsolated

referrerPolicy(env) ==
  IF env.request = "none" THEN "strict-origin-when-cross-origin" ELSE env.request

\* What a call does: the error it throws, what it returns ("null", "window",
\* "fake", a boolean, or "none" when it throws), its openInWindow calls, the
\* anchor it clicks, whether it sets opener to null on the window it got,
\* what it writes into that window's document, whether it calls focus.
NoClick == [clicked |-> FALSE, href |-> <<>>, target |-> Undefined, rel |-> ""]

Outcome(err, ret, opens, click, openerNull, written) ==
  [err |-> err, ret |-> ret, opens |-> opens, click |-> click,
   openerNull |-> openerNull, written |-> written, focused |-> FALSE]

NoOutcome == Outcome("none", "none", <<>>, NoClick, FALSE, <<>>)

OpenCall(url, target, features) ==
  [url |-> url, target |-> target, features |-> features]

\* Variant: the error is thrown whether or not noreferrer is asked for.
throwsForUnsafeReferrer_anyCall(opts, env) ==
  browserSupportsCoop(env) /\ referrerPolicy(env) = "unsafe-url"

\* browserSupportsCoop && noReferrerOption && pageSetsUnsafeReferrerPolicy
throwsForUnsafeReferrer(opts, env) ==
  /\ browserSupportsCoop(env) /\ Truthy(GetOpt(opts, "noreferrer"))
  /\ referrerPolicy(env) = "unsafe-url"

\* noReferrerOption after the COOP workaround, as a condition.
noReferrerOption(opts, env) ==
  IF browserSupportsCoop(env) /\ Truthy(GetOpt(opts, "noreferrer"))
  THEN FALSE
  ELSE Truthy(GetOpt(opts, "noreferrer"))

\* opt_options.target || linkRef.target
openTarget(linkRef, opts) == Or(GetOpt(opts, "target"), linkRef.target)

\* iOS in standalone mode, with a target other than _self.
useAnchor(target, env) ==
  env.iosStandalone /\ Truthy(target) /\ target # Str("_self")

\* The iOS branch: an A element is clicked, a fake Window is returned.
anchorPath(safeLinkRef, target, noReferrer) ==
  Outcome("none", "fake", <<>>,
          [clicked |-> TRUE, href |-> safeLinkRef, target |-> target,
           rel |-> IF noReferrer THEN "noreferrer" ELSE ""],
          FALSE, <<>>)

\* Variant: the blank window is opened on the target URL.
noReferrerPath_opensUrl(safeLinkRef, target, features, env) ==
  LET sanitizedLinkRef ==
        IF env.edgeOrIe THEN QuoteForIe(safeLinkRef) ELSE safeLinkRef
  IN
  IF env.response = "blocked"
  THEN Outcome("none", "null", <<OpenCall(safeLinkRef, target, features)>>,
               NoClick, FALSE, <<>>)
  ELSE Outcome("none", "window", <<OpenCall(safeLinkRef, target, features)>>,
               NoClick, TRUE,
               IF env.response = "window" THEN SafeHtml(sanitizedLinkRef) ELSE <<>>)

\* The noreferrer branch: a blank window, opener = null, the meta tags.
noReferrerPath(safeLinkRef, target, features, env) ==
  LET sanitizedLinkRef ==
        IF env.edgeOrIe THEN QuoteForIe(safeLinkRef) ELSE safeLinkRef
  IN
  IF env.response = "blocked"
  THEN Outcome("none", "null", <<OpenCall(<<>>, target, features)>>,
               NoClick, FALSE, <<>>)
  ELSE Outcome("none", "window", <<OpenCall(<<>>, target, features)>>,
               NoClick, TRUE,
               IF env.response = "window" THEN SafeHtml(sanitizedLinkRef) ELSE <<>>)

\* Variant: a blocked popup is reported as a window.
directPath_neverNull(safeLinkRef, target, features, noopener, env) ==
  Outcome("none", "window", <<OpenCall(safeLinkRef, target, features)>>, NoClick,
          env.response # "blocked" /\ noopener, <<>>)

\* The last branch: the URL is opened, opener = null if noopener is set.
directPath(safeLinkRef, target, features, noopener, env) ==
  Outcome("none", IF env.response # "blocked" THEN "window" ELSE "null",
          <<OpenCall(safeLinkRef, target, features)>>, NoClick,
          env.response # "blocked" /\ noopener, <<>>)

\* goog.window.open(linkRef, opts) in the browser env.
open(linkRef, opts, env) ==
  LET safeLinkRef == SafeLinkRef(linkRef)
      target == openTarget(linkRef, opts)
      features == optionString(opts)
  IN
  IF throwsForUnsafeReferrer(opts, env)
  THEN Outcome("Error", "none", <<>>, NoClick, FALSE, <<>>)
  ELSE IF useAnchor(target, env)
  THEN anchorPath(safeLinkRef, target, noReferrerOption(opts, env))
  ELSE IF noReferrerOption(opts, env)
  THEN noReferrerPath(safeLinkRef, target, features, env)
  ELSE directPath(safeLinkRef, target, features,
                  Truthy(GetOpt(opts, "noopener")), env)

\* The options popup hands to open.
popupOptions(linkRef, opts) ==
  LET o1 == SetOpt(opts, "target",
                   Or(Or(GetOpt(opts, "target"), linkRef.target),
                      Str(DEFAULT_POPUP_TARGET)))
      o2 == SetOpt(o1, "width", Or(GetOpt(o1, "width"), Num(DEFAULT_POPUP_WIDTH)))
  IN SetOpt(o2, "height", Or(GetOpt(o2, "height"), Num(DEFAULT_POPUP_HEIGHT)))

\* goog.window.popup(linkRef, opts) in the browser env.
popup(linkRef, opts, env) ==
  LET r == open(linkRef, popupOptions(linkRef, opts), env) IN
  IF r.err # "none" THEN r
  ELSE IF r.ret = "null" THEN [r EXCEPT !.ret = "true"]
  ELSE IF r.ret = "fake" THEN [r EXCEPT !.err = "TypeError", !.ret = "none"]
  ELSE [r EXCEPT !.ret = "false", !.focused = TRUE]

\* The callers' arguments and the browsers the calls run in.
Url1 == <<"http://a/?q=", ";", "'", "&">>
Url2 == <<"javascript:", "alert(1)">>

LinkRefs ==
  {[kind |-> "SafeUrl", href |-> Url1, target |-> Undefined],
   [kind |-> "string", href |-> Url2, target |-> Undefined],
   [kind |-> "anchor", href |-> Url1, target |-> Str("lt")],
   [kind |-> "anchor", href |-> Url2, target |-> Str("")]}

OptionValues ==
  [name : {"target"}, val : {Str(""), Str("_self")}]
    \cup [name : {"width"}, val : {Num(0), Num(100)}]
    \cup [name : {"height"}, val : {Num(50)}]
    \cup [name : {"toolbar"}, val : {True, False}]
    \cup [name : {"noopener"}, val : {True}]
    \cup [name : {"noreferrer"}, val : {True}]

OptionObjects ==
  UNION {{o \in [1..n -> OptionValues] :
            \A a, b \in 1..n : a # b => o[a].name # o[b].name} : n \in 0..MaxOpts}

Envs ==
  [crossOriginIsolated : BOOLEAN, request : {"none", "unsafe-url"},
   iosStandalone : BOOLEAN, edgeOrIe : BOOLEAN,
   response : {"blocked", "noDocument", "window"}]

NoArgs == [linkRef |-> [kind |-> "string", href |-> <<>>, target |-> Undefined],
           opts |-> <<>>,
           env |-> [crossOriginIsolated |-> FALSE, request |-> "none",
                    iosStandalone |-> FALSE, edgeOrIe |-> FALSE,
                    response |-> "blocked"]]

WinIdle == [op |-> "none", args |-> NoArgs, out |-> NoOutcome]

\* --------------------------------------------------------------- states
Entries == [k : Keys, v : StoredVals]

Distinct(s) == \A a, b \in 1..Len(s) : a # b => s[a].k # s[b].k

Stores ==
  UNION {{s \in [1..n -> Entries] : Distinct(s)} : n \in 0..MaxEntries}

\* The iterator's record: its mode (opt_keys) and index i are the closure's
\* state; the rest is history.  out: the elements yielded while the store was
\* left untouched; mutated: the store has changed since __iterator__;
\* doneSeen: next has reported done; added: an entry was added after that;
\* errs: what next has thrown; probed: an isAvailable call changed the store
\* since __iterator__; keys0: the keys stored when __iterator__ was called.
NoIter ==
  [live |-> FALSE, keys |-> FALSE, i |-> 0, out |-> <<>>, mutated |-> FALSE,
   doneSeen |-> FALSE, added |-> FALSE, errs |-> {}, probed |-> FALSE,
   keys0 |-> {}]

KeysOf(s) == {s[j].k : j \in 1..Len(s)}

\* The record of a call.  Calls of the mechanism are recorded in full until
\* the first iterator is made, and by "other" afterwards; calls of next are
\* always recorded in full.  k, v: the arguments; env: what the Storage object
\* was made to throw; err, ret, done, n: the outcome; pre: the store before
\* the call; i0: the iterator's index before the call.
NoThrow == <<FALSE, FALSE>>

Record(op, k, v, env, err, ret, done, n, i0) ==
  [op |-> op, k |-> k, v |-> v, env |-> env, err |-> err, ret |-> ret,
   done |-> done, n |-> n, pre |-> store, i0 |-> i0]

Other ==
  [op |-> "other", k |-> "", v |-> "", env |-> NoThrow, err |-> "none",
   ret |-> Undefined, done |-> FALSE, n |-> 0, pre |-> <<>>, i0 |-> 0]

Call(op, k, v, env, err, ret, n) ==
  IF it.live THEN Other ELSE Record(op, k, v, env, err, ret, FALSE, n, 0)

Bool(b) == <<"boolean", IF b THEN "true" ELSE "false">>

\* Two mechanism instances made over the same Storage object.  An instance
\* has one field, storage_, so the two differ in name only.  caller: the
\* instance that made the last call (0: none yet); prev: the call before it
\* and the instance that made it.
Mechanisms == {1, 2}

NoCall == [op |-> "new", k |-> "", v |-> "", err |-> "none", caller |-> 0]

NoMech == [caller |-> 0, prev |-> NoCall]

Init ==
  /\ win = WinIdle
  /\ mech = NoMech
  /\ hasStorage \in BOOLEAN
  /\ store \in (IF hasStorage THEN Stores ELSE {<<>>})
  /\ it = NoIter
  /\ last = Record("new", "", "", NoThrow, "none", Undefined, FALSE, 0, 0)

\* What a call that leaves the store as s2 does to the iterator's record.
Touch(s2) ==
  IF it.live /\ s2 # store
  THEN [it EXCEPT !.mutated = TRUE,
                  !.out = <<>>,
                  !.added = @ \/ (it.doneSeen /\ Len(s2) > Len(store))]
  ELSE it

\* The Storage object has no room for a new key k.
Full(s, k) == IndexOf(s, k) = 0 /\ Len(s) >= MaxEntries

Positions == 1..(Len(store) + 1)

IsAvailable ==
  \E setThrows, rmThrows \in BOOLEAN, pos \in Positions :
    LET r == isAvailable(store, setThrows, rmThrows, pos) IN
    /\ Full(store, STORAGE_AVAILABLE_KEY_) => setThrows
    /\ store' = r.store
    /\ it' = [Touch(r.store) EXCEPT !.probed = @ \/ (it.live /\ r.store # store)]
    /\ last' = Call("isAvailable", "", "", <<setThrows, rmThrows>>, r.err, Bool(r.ret), 0)
    /\ UNCHANGED hasStorage

Set ==
  \E k \in Keys, v \in StrVals, rejects \in BOOLEAN, pos \in Positions :
    LET r == set(store, k, Str(v), rejects, pos) IN
    /\ Full(store, k) => rejects
    /\ store' = r.store
    /\ it' = Touch(r.store)
    /\ last' = Call("set", k, v, <<rejects, FALSE>>, r.err, Undefined, r.writes)
    /\ UNCHANGED hasStorage

Get ==
  \E k \in Keys :
    LET r == get(store, k) IN
    /\ last' = Call("get", k, "", NoThrow, r.err, r.ret, 0)
    /\ UNCHANGED <<hasStorage, store, it>>

Remove ==
  \E k \in Keys :
    LET r == remove(store, k) IN
    /\ store' = r.store
    /\ it' = Touch(r.store)
    /\ last' = Call("remove", k, "", NoThrow, r.err, Undefined, 0)
    /\ UNCHANGED hasStorage

GetCount ==
  LET r == getCount(store) IN
  /\ last' = Call("getCount", "", "", NoThrow, r.err, Undefined, r.n)
  /\ UNCHANGED <<hasStorage, store, it>>

Iterator ==
  \E opt_keys \in BOOLEAN :
    /\ it' = [NoIter EXCEPT !.live = TRUE, !.keys = opt_keys, !.keys0 = KeysOf(store)]
    /\ last' = Call("__iterator__", "", "", NoThrow, "none", Undefined, 0)
    /\ UNCHANGED <<hasStorage, store>>

Next_ ==
  /\ it.live
  /\ LET r == next(store, it.keys, it.i) IN
     /\ it' = [it EXCEPT !.i = r.i,
                         !.out = IF r.err = "none" /\ ~r.done /\ ~it.mutated
                                 THEN Append(@, r.ret) ELSE @,
                         !.doneSeen = @ \/ r.done,
                         !.errs = IF r.err = "none" THEN @ ELSE @ \cup {r.err}]
     /\ last' = Record("next", "", "", NoThrow, r.err, r.ret, r.done, 0, it.i)
  /\ UNCHANGED <<hasStorage, store>>

Clear ==
  LET r == clear(store) IN
  /\ store' = r.store
  /\ it' = Touch(r.store)
  /\ last' = Call("clear", "", "", NoThrow, r.err, Undefined, 0)
  /\ UNCHANGED hasStorage

Next ==
  \/ IsAvailable /\ UNCHANGED <<win, mech>>
  \/ Set /\ UNCHANGED <<win, mech>>
  \/ Get /\ UNCHANGED <<win, mech>>
  \/ Remove /\ UNCHANGED <<win, mech>>
  \/ GetCount /\ UNCHANGED <<win, mech>>
  \/ Iterator /\ UNCHANGED <<win, mech>>
  \/ Next_ /\ UNCHANGED <<win, mech>>
  \/ Clear /\ UNCHANGED <<win, mech>>

Spec == Init /\ [][Next]_vars

\* ------------------------------------------- goog.window: specification
WinInit ==
  /\ hasStorage = FALSE
  /\ store = <<>>
  /\ it = NoIter
  /\ last = Other
  /\ mech = NoMech
  /\ win \in [op : {"none"}, args : [linkRef : LinkRefs, opts : OptionObjects, env : Envs],
              out : {NoOutcome}]

Open ==
  /\ win.op = "none"
  /\ win' = [win EXCEPT !.op = "open",
                        !.out = open(win.args.linkRef, win.args.opts, win.args.env)]
  /\ UNCHANGED <<hasStorage, store, it, last, mech>>

Popup ==
  /\ win.op = "none"
  /\ win' = [win EXCEPT !.op = "popup",
                        !.out = popup(win.args.linkRef, win.args.opts, win.args.env)]
  /\ UNCHANGED <<hasStorage, store, it, last, mech>>

WinNext == Open \/ Popup

WinSpec == WinInit /\ [][WinNext]_vars

\* ------------------------- two mechanisms on one Storage object
\* The Storage object exists and holds strings only; no iterator is made.
SharedInit ==
  /\ hasStorage = TRUE
  /\ store \in {s \in Stores : \A j \in 1..Len(s) : Typeof(s[j].v) = "string"}
  /\ it = NoIter
  /\ last = Record("new", "", "", NoThrow, "none", Undefined, FALSE, 0, 0)
  /\ win = WinIdle
  /\ mech = NoMech

\* Instance m makes the call.
By(m) ==
  mech' = [caller |-> m,
           prev |-> [op |-> last.op, k |-> last.k, v |-> last.v, err |-> last.err,
                     caller |-> mech.caller]]

SharedSet == \E m \in Mechanisms : Set /\ By(m) /\ UNCHANGED win

SharedRemove == \E m \in Mechanisms : Remove /\ By(m) /\ UNCHANGED win

SharedClear == \E m \in Mechanisms : Clear /\ By(m) /\ UNCHANGED win

SharedGet == \E m \in Mechanisms : Get /\ By(m) /\ UNCHANGED win

SharedGetCount == \E m \in Mechanisms : GetCount /\ By(m) /\ UNCHANGED win

SharedNext == SharedSet \/ SharedRemove \/ SharedClear \/ SharedGet \/ SharedGetCount

SharedSpec == SharedInit /\ [][SharedNext]_vars

\* ---------------------------------------------------------------- claims
AllStrings(s) == \A j \in 1..Len(s) : Typeof(s[j].v) = "string"

\* What an iterator in mode opt_keys yields for entry j of s.
Element(s, opt_keys, j) == IF opt_keys THEN Str(s[j].k) ELSE s[j].v

\* C1: whenever set(k, v) has returned without raising, get(k) in the state it
\* leaves returns exactly v, whatever the store held before.
C1_SetThenGet ==
  (last.op = "set" /\ last.err = "none")
    => get(store, last.k) = Return(Str(last.v))

\* set overwrote a different value stored under the same key.
C1_Witness ==
  /\ last.op = "set" /\ last.err = "none"
  /\ IndexOf(last.pre, last.k) # 0
  /\ getItem(last.pre, last.k) # Str(last.v)
  /\ get(store, last.k) = Return(Str(last.v))

\* C2: on a mechanism with a Storage object, remove(k) raises nothing; after
\* it get(k) returns null and every other key holds what it held; when k was
\* not stored the entries, their order and their number are unchanged.
C2_Remove ==
  (last.op = "remove" /\ hasStorage)
    => /\ last.err = "none"
       /\ get(store, last.k) = Return(Null)
       /\ \A k2 \in Keys \ {last.k} : getItem(store, k2) = getItem(last.pre, k2)
       /\ IndexOf(last.pre, last.k) = 0
            => (store = last.pre /\ getCount(store).n = Len(last.pre))

\* remove of a key that is not stored, on a store that holds other entries.
C2_Witness ==
  /\ last.op = "remove" /\ hasStorage
  /\ IndexOf(last.pre, last.k) = 0
  /\ Len(last.pre) > 0
  /\ store = last.pre

\* C3: while the store is left untouched and holds only strings, the
\* elements an iterator has yielded are those of the positional indexes
\* 0..i-1 in order (keys in keys mode, values in values mode), next has thrown
\* nothing, and done is reported only when getCount() elements were yielded.
C3_IterationMatchesCount ==
  (it.live /\ ~it.mutated /\ hasStorage /\ AllStrings(store))
    => /\ it.errs = {}
       /\ it.i <= getCount(store).n
       /\ it.out = [j \in 1..it.i |-> Element(store, it.keys, j)]
       /\ it.doneSeen => Len(it.out) = getCount(store).n

\* a values iterator run to done over two string entries.
C3_Witness ==
  /\ it.live /\ ~it.mutated /\ hasStorage /\ AllStrings(store)
  /\ ~it.keys /\ it.doneSeen
  /\ Len(store) = 2 /\ Len(it.out) = 2

\* C4: after clear() has returned, getCount() is 0, get(k) is null for
\* every key, and a new iterator (index 0, either mode) reports done on its
\* first next().
C4_Clear ==
  (last.op = "clear" /\ last.err = "none")
    => /\ getCount(store) = [err |-> "none", n |-> 0]
       /\ \A k \in Keys : get(store, k) = Return(Null)
       /\ \A opt_keys \in BOOLEAN :
            LET r == next(store, opt_keys, 0) IN r.err = "none" /\ r.done

\* clear of a store with two entries, one of them not a string.
C4_Witness ==
  /\ last.op = "clear" /\ last.err = "none"
  /\ Len(last.pre) = 2 /\ ~AllStrings(last.pre)
  /\ store = <<>>

\* C5: when the Storage object rejects the write of set(k, v), set raises
\* STORAGE_DISABLED if the store holds no entry and QUOTA_EXCEEDED if it
\* holds one or more, for every k and v; set raises an error only then.
C5_SetErrorCode ==
  (last.op = "set" /\ hasStorage)
    => /\ last.env[1] =>
            last.err = (IF Len(last.pre) = 0 THEN STORAGE_DISABLED ELSE QUOTA_EXCEEDED)
       /\ ~last.env[1] => last.err = "none"

\* a rejected write on a store that holds an entry.
C5_Witness ==
  /\ last.op = "set" /\ hasStorage /\ last.env[1]
  /\ Len(last.pre) > 0
  /\ last.err = QUOTA_EXCEEDED

\* C6: get(k) returns the stored value when it is a string, null when k is
\* not stored, and raises INVALID_VALUE, returning nothing, when the stored
\* value is anything else; what it returns is a string or null.
C6_GetStringOrNull ==
  (last.op = "get" /\ hasStorage)
    => LET j == IndexOf(store, last.k) IN
       /\ j = 0 => (last.err = "none" /\ last.ret = Null)
       /\ (j # 0 /\ Typeof(store[j].v) = "string")
            => (last.err = "none" /\ last.ret = store[j].v)
       /\ (j # 0 /\ Typeof(store[j].v) # "string")
            => (last.err = INVALID_VALUE /\ last.ret = Undefined)
       /\ last.err = "none" => (Typeof(last.ret) = "string" \/ last.ret = Null)

\* get of a key whose stored value is an object (typeof as for null).
C6_Witness ==
  /\ last.op = "get" /\ hasStorage
  /\ getItem(store, last.k) = Obj
  /\ last.err = INVALID_VALUE

\* The entries of s whose value is not a string.
NonStrings(s) == {j \in 1..Len(s) : Typeof(s[j].v) # "string"}

\* C7, as claimed: once an iterator in either mode has been run to done over
\* an untouched store with one non-string value, next has raised INVALID_VALUE.
C7_AsClaimed ==
  (it.live /\ ~it.mutated /\ hasStorage /\ it.doneSeen
     /\ Cardinality(NonStrings(store)) = 1)
    => INVALID_VALUE \in it.errs

\* C7: over an untouched store with one non-string value, at index b: a
\* values iterator has raised INVALID_VALUE exactly when it has reached b, has
\* raised nothing else, and has yielded the values before its index other
\* than that one; a keys iterator reads no value: it has raised nothing and
\* has yielded every key before its index, the key at b included.
C7_InvalidValueInValuesMode ==
  (it.live /\ ~it.mutated /\ hasStorage /\ Cardinality(NonStrings(store)) = 1)
    => LET b == CHOOSE j \in NonStrings(store) : TRUE IN
       IF it.keys
       THEN /\ it.errs = {}
            /\ it.out = [j \in 1..it.i |-> Str(store[j].k)]
       ELSE /\ it.errs = (IF it.i >= b THEN {INVALID_VALUE} ELSE {})
            /\ it.out = SelectSeq([j \in 1..it.i |-> store[j].v],
                                  LAMBDA v : Typeof(v) = "string")

\* a values iterator that raised at the non-string entry and was run to done.
C7_Witness ==
  /\ it.live /\ ~it.mutated /\ hasStorage
  /\ Cardinality(NonStrings(store)) = 1 /\ Len(store) = 2
  /\ ~it.keys /\ it.doneSeen
  /\ it.errs = {INVALID_VALUE}

\* C8, as claimed: a values iterator that has raised INVALID_VALUE yields
\* nothing on later next() calls.
C8_AsClaimed ==
  (last.op = "next" /\ ~it.keys /\ INVALID_VALUE \in it.errs)
    => ~(last.err = "none" /\ ~last.done)

\* C8: a next() call of a values iterator whose index is in range raises
\* INVALID_VALUE, returning nothing, exactly when the value at that index is
\* not a string, and yields that value otherwise; either way the index has
\* moved on by one, so that after a raise the next call goes on with the
\* entry that follows.
C8_RaiseThenResume ==
  (last.op = "next" /\ ~it.keys /\ hasStorage /\ last.i0 < Len(store))
    => /\ it.i = last.i0 + 1
       /\ ~last.done
       /\ IF Typeof(store[last.i0 + 1].v) # "string"
          THEN last.err = INVALID_VALUE /\ last.ret = Undefined
          ELSE last.err = "none" /\ last.ret = store[last.i0 + 1].v

\* a values iterator over an untouched store yields the entry after the one
\* it raised on.
C8_Witness ==
  /\ last.op = "next" /\ ~it.keys /\ ~it.mutated
  /\ it.errs = {INVALID_VALUE}
  /\ last.err = "none" /\ ~last.done
  /\ last.i0 > 0 /\ Typeof(store[last.i0].v) # "string"
  /\ last.ret = store[last.i0 + 1].v

\* C9: isAvailable() raises nothing and returns true exactly when the
\* mechanism has a Storage object and neither the write nor the removal of
\* the sentinel key throws; it returns false otherwise.
C9_IsAvailable ==
  (last.op = "isAvailable")
    => /\ last.err = "none"
       /\ last.ret = Bool(hasStorage /\ ~last.env[1] /\ ~last.env[2])

\* the sentinel was written and its removal threw.
C9_Witness ==
  /\ last.op = "isAvailable" /\ hasStorage
  /\ ~last.env[1] /\ last.env[2]
  /\ getItem(store, STORAGE_AVAILABLE_KEY_) = Str("1")
  /\ last.ret = Bool(FALSE)

\* C10, as claimed: a next() call on an iterator that has reported done
\* reports done, whatever set, remove and clear calls came in between.
C10_AsClaimed ==
  (last.op = "next" /\ it.doneSeen /\ ~it.probed) => last.done

\* C10: a next() call on an iterator that has reported done reports done, as
\* long as no call has added an entry to the store since.
C10_DoneStaysDone ==
  (last.op = "next" /\ it.doneSeen /\ ~it.added) => (last.done /\ last.err = "none")

\* done, then the store shrank or a value was overwritten, then done again,
\* with the index past 0.
C10_Witness ==
  /\ last.op = "next" /\ it.doneSeen /\ ~it.added /\ it.mutated
  /\ it.i > 0
  /\ last.done

\* C11: next() works on the store as it is at the call, not as it was when
\* the iterator was made: it reports done exactly when its index is not below
\* the current length, and otherwise deals with the entry now at that index
\* (yielding its key, or its value if that is a string); so a key yielded is
\* a key stored at that moment, whether or not it was stored when the
\* iterator was made, and a key removed since is not yielded.
C11_NoSnapshot ==
  (last.op = "next" /\ hasStorage)
    => /\ last.done <=> last.i0 >= Len(store)
       /\ ~last.done =>
            /\ it.keys => (last.err = "none" /\ last.ret = Str(store[last.i0 + 1].k))
            /\ (~it.keys /\ last.err = "none") => last.ret = store[last.i0 + 1].v
            /\ it.keys => last.ret[2] \in KeysOf(store)

\* a keys iterator yields a key stored after it was made, at an index past
\* the number of entries there were then, while a key stored then is gone.
C11_Witness ==
  /\ last.op = "next" /\ it.keys /\ it.mutated
  /\ last.err = "none" /\ ~last.done
  /\ last.ret[2] \notin it.keys0
  /\ last.i0 >= Cardinality(it.keys0)
  /\ it.keys0 \ KeysOf(store) # {}

\* C12: a call of set on a mechanism with a Storage object makes exactly one
\* setItem call; when that call is rejected, set raises and the store is
\* exactly what it was before the call.
C12_OneAttemptNoRecovery ==
  (last.op = "set" /\ hasStorage)
    => /\ last.n = 1
       /\ last.env[1] => (last.err # "none" /\ store = last.pre)

\* a rejected write of a new value for a key of a non-empty store.
C12_Witness ==
  /\ last.op = "set" /\ hasStorage /\ last.env[1]
  /\ Len(last.pre) > 0
  /\ getItem(last.pre, last.k) # Str(last.v)
  /\ last.err = QUOTA_EXCEEDED /\ store = last.pre /\ last.n = 1

\* C20, as claimed: after isAvailable() the store holds exactly the entries
\* it held before.
C20_AsClaimed ==
  (last.op = "isAvailable") => store = last.pre

\* C20: after isAvailable() every entry under a key other than the sentinel
\* key is as it was, in the same order.  The store as a whole is unchanged
\* when there is no Storage object, when the sentinel write throws, and when
\* true is returned with no sentinel entry stored before; an entry stored
\* under the sentinel key is gone when true is returned, and the sentinel
\* entry holds '1' when its removal throws.
C20_ProbeKeepsOtherEntries ==
  (last.op = "isAvailable")
    => /\ removeItem(store, STORAGE_AVAILABLE_KEY_)
            = removeItem(last.pre, STORAGE_AVAILABLE_KEY_)
       /\ (~hasStorage \/ last.env[1]) => store = last.pre
       /\ last.ret = Bool(TRUE) => getItem(store, STORAGE_AVAILABLE_KEY_) = Null
       /\ (last.ret = Bool(TRUE) /\ getItem(last.pre, STORAGE_AVAILABLE_KEY_) = Null)
            => store = last.pre
       /\ (hasStorage /\ ~last.env[1] /\ last.env[2])
            => getItem(store, STORAGE_AVAILABLE_KEY_) = Str("1")

\* isAvailable returned true and removed an entry a caller had stored under
\* the sentinel key, next to another entry, which it left alone.
C20_Witness ==
  /\ last.op = "isAvailable" /\ last.ret = Bool(TRUE)
  /\ getItem(last.pre, STORAGE_AVAILABLE_KEY_) = Str("x")
  /\ Len(last.pre) = 2
  /\ Len(store) = 1

\* ------------------------------------------------- claims on goog.window
\* The options of the call that are written into the features string.
Shown(opts) == SelectSeq(opts, LAMBDA o : o.name \notin {"target", "noopener", "noreferrer"})

\* C13: open returns null exactly when it called the browser's window-open
\* and got no window; it has then set no opener, written no document and
\* clicked no anchor; when the call gave a window, that window is returned.
C13_NullIffBlocked ==
  (win.op = "open")
    => /\ win.out.ret = "null"
            <=> (Len(win.out.opens) = 1 /\ win.args.env.response = "blocked")
       /\ win.out.ret = "null"
            => (~win.out.openerNull /\ win.out.written = <<>>
                  /\ ~win.out.click.clicked)
       /\ (Len(win.out.opens) = 1 /\ win.args.env.response # "blocked")
            => win.out.ret = "window"
       /\ Len(win.out.opens) <= 1

\* a blocked popup on the noreferrer path.
C13_Witness ==
  /\ win.op = "open" /\ win.out.ret = "null"
  /\ Truthy(GetOpt(win.args.opts, "noreferrer"))
  /\ Len(win.out.opens) = 1 /\ win.out.opens[1].url = <<>>

\* C14: open throws the Error exactly when ENFORCE_COOP is on,
\* crossOriginIsolated is defined, noreferrer is passed and the referrer policy
\* is unsafe-url; it has then opened no window and clicked no anchor.
C14_ThrowsOnUnsafeUrl ==
  (win.op = "open")
    => /\ win.out.err = "Error"
            <=> /\ ENFORCE_COOP
                /\ win.args.env.crossOriginIsolated
                /\ Truthy(GetOpt(win.args.opts, "noreferrer"))
                /\ win.args.env.request = "unsafe-url"
       /\ win.out.err = "Error"
            => (win.out.opens = <<>> /\ ~win.out.click.clicked
                  /\ win.out.ret = "none")
       /\ win.out.err \in {"none", "Error"}

\* the throw, on iOS in standalone mode with a target, where a click would
\* otherwise have been dispatched.
C14_Witness ==
  /\ win.op = "open" /\ win.out.err = "Error"
  /\ win.args.env.iosStandalone
  /\ Truthy(openTarget(win.args.linkRef, win.args.opts))
  /\ win.out.opens = <<>> /\ ~win.out.click.clicked

\* C15, as claimed: when noopener is set and open makes a new window (the
\* browser's, or the one the clicked anchor opens), opener is set to null;
\* and no item of the features string is named noopener.
C15_AsClaimed ==
  (win.op = "open")
    => /\ (Truthy(GetOpt(win.args.opts, "noopener"))
             /\ win.out.ret \in {"window", "fake"})
            => win.out.openerNull
       /\ \A c \in 1..Len(win.out.opens) :
            \A j \in 1..Len(win.out.opens[c].features) :
              win.out.opens[c].features[j][1] # "noopener"

C17_AsClaimed ==
  (win.op = "popup")
    => LET r == open(win.args.linkRef,
                     popupOptions(win.args.linkRef, win.args.opts), win.args.env)
       IN r.err = "none"
            => /\ win.out.err = "none"
               /\ win.out.ret = (IF r.ret = "null" THEN "true" ELSE "false")
               /\ win.out.focused <=> r.ret # "null"

\* C18, as claimed: the width popup opens the window with is the caller's
\* when the options have a width, 0 included, and 690 otherwise; the same for
\* the height and 500; the target is options.target if that is set, else
\* linkRef.target if that is set, else google_popup.
C18_AsClaimed ==
  (win.op = "popup" /\ Len(win.out.opens) = 1)
    => LET given(name) == GetOpt(win.args.opts, name) # Undefined
           width == IF given("width") THEN GetOpt(win.args.opts, "width")
                    ELSE Num(DEFAULT_POPUP_WIDTH)
           height == IF given("height") THEN GetOpt(win.args.opts, "height")
                     ELSE Num(DEFAULT_POPUP_HEIGHT)
           target == IF Truthy(GetOpt(win.args.opts, "target"))
                     THEN GetOpt(win.args.opts, "target")
                     ELSE IF Truthy(win.args.linkRef.target)
                     THEN win.args.linkRef.target
                     ELSE Str(DEFAULT_POPUP_TARGET)
           f == win.out.opens[1].features
       IN
       /\ \E j \in 1..Len(f) : f[j] = <<"width", "=", ToStr(width)>>
       /\ \E j \in 1..Len(f) : f[j] = <<"height", "=", ToStr(height)>>
       /\ win.out.opens[1].target = target

\* C19: the features string open passes has one item per option other than
\* target, noopener and noreferrer, in the order of the options: name=value
\* with the value as it is for width, height, top and left, name=1 or name=0
\* by truthiness for the others; the target passed (to the browser, or set on
\* the anchor) is options.target if truthy, otherwise linkRef.target.
C19_FeaturesAndTarget ==
  (win.op = "open" /\ win.out.err = "none")
    => LET shown == Shown(win.args.opts)
           target == IF Truthy(GetOpt(win.args.opts, "target"))
                     THEN GetOpt(win.args.opts, "target")
                     ELSE win.args.linkRef.target
       IN
       /\ \A c \in 1..Len(win.out.opens) :
            LET f == win.out.opens[c].features IN
            /\ Len(f) = Len(shown)
            /\ \A j \in 1..Len(f) :
                 /\ f[j][1] = shown[j].name
                 /\ f[j][2] = "="
                 /\ shown[j].name \in {"width", "height", "top", "left"}
                      => f[j][3] = shown[j].val[2]
                 /\ shown[j].name \notin {"width", "height", "top", "left"}
                      => f[j][3] = (IF Truthy(shown[j].val) THEN "1" ELSE "0")
            /\ win.out.opens[c].target = target
       /\ win.out.click.clicked => win.out.click.target = target
       /\ Len(win.out.opens) = 1 \/ win.out.click.clicked

\* a width of 0 written as it is, noopener left out, the target taken from
\* linkRef.
C19_Witness ==
  /\ win.op = "open" /\ Len(win.out.opens) = 1
  /\ Len(win.args.opts) = 2
  /\ Truthy(GetOpt(win.args.opts, "noopener"))
  /\ win.out.opens[1].features = <<<<"width", "=", "0">>>>
  /\ win.out.opens[1].target = Str("lt")

\* --------------------------------- claims on mechanisms and iterators
\* The keys for which get returns a string.
Readable(s) ==
  {k \in Keys : get(s, k).err = "none" /\ Typeof(get(s, k).ret) = "string"}

\* C21: on a Storage object that starts with strings only, after any set,
\* remove and clear calls, rejected ones included, made through either of two
\* mechanisms on that object: the store holds strings only; getCount() is the
\* number of keys for which get returns a string; get(k) and getCount()
\* return what the Storage object holds at the call, whichever mechanism
\* made the calls before: after a set(k, v) that raised nothing get(k) is v,
\* after a remove(k) it is null, and after a clear() getCount() is 0.
C21_NoCache ==
  /\ AllStrings(store)
  /\ getCount(store) = [err |-> "none", n |-> Cardinality(Readable(store))]
  /\ last.op = "get" =>
       /\ last.err = "none" /\ last.ret = getItem(store, last.k)
       /\ (mech.prev.op = "set" /\ mech.prev.err = "none" /\ mech.prev.k = last.k)
            => last.ret = Str(mech.prev.v)
       /\ (mech.prev.op = "remove" /\ mech.prev.k = last.k) => last.ret = Null
       /\ mech.prev.op = "clear" => last.ret = Null
  /\ last.op = "getCount" =>
       /\ last.err = "none" /\ last.n = Len(store)
       /\ mech.prev.op = "clear" => last.n = 0

\* one mechanism reads the value the other one has just stored under a key.
C21_Witness ==
  /\ last.op = "get" /\ mech.prev.op = "set" /\ mech.prev.err = "none"
  /\ mech.prev.k = last.k
  /\ mech.prev.caller # 0 /\ mech.prev.caller # mech.caller
  /\ Len(store) = 2
  /\ last.ret = Str(mech.prev.v)

\* C22: whatever set, remove and clear calls come between next() calls, the
\* string assertion on the key never fails: next() reports done, reading no
\* key and leaving the index as it is, when the index is not below the current
\* length, and otherwise reads the key at the index, which is a string, and
\* moves the index on by one; a key yielded in keys mode is stored at that
\* moment; the index never decreases.
C22_AssertNeverFails ==
  /\ "AssertionError" \notin it.errs
  /\ (last.op = "next" /\ hasStorage) =>
       /\ last.err # "AssertionError"
       /\ it.i >= last.i0
       /\ last.done => (last.i0 >= Len(store) /\ it.i = last.i0)
       /\ ~last.done =>
            /\ last.i0 < Len(store) /\ it.i = last.i0 + 1
            /\ Typeof(key(store, last.i0)) = "string"
            /\ (it.keys /\ last.err = "none") => last.ret[2] \in KeysOf(store)

\* the store was emptied under an iterator whose index had moved on: the index
\* is above the length, and next() reports done and throws nothing.
C22_Witness ==
  /\ last.op = "next" /\ hasStorage /\ it.mutated
  /\ last.i0 > Len(store)
  /\ last.done /\ last.err = "none"
  /\ it.errs = {}
====
